---- MODULE Spec2Model ----
(***************************************************************************)
(* QDbfTableModel (src/qdbftablemodel.cpp): the incremental row cache over *)
(* a QDbfTable.  The state is the private object's fields, the table it    *)
(* owns, and what the last call returned and emitted.                      *)
(***************************************************************************)
EXTENDS Integers, Sequences, FiniteSets, TLC

VARIABLES
    table,                  \* the QDbfTable behind m_dbfTable
    m_record,               \* schema record taken at construction (field names)
    m_records,              \* QVector<QDbfRecord>: the row cache
    m_headers,              \* QVector<QHash<int, QVariant> >: header overlay
    m_deletedRecordsCount,
    m_lastRecordIndex,
    traversed,              \* number of store records the cursor has visited
    writes,                 \* number of persisted cell writes so far
    emitted,                \* signals emitted by the last call, in order
    lastCall                \* the last call: its arguments and its outcome

vars == <<table, m_record, m_records, m_headers, m_deletedRecordsCount,
          m_lastRecordIndex, traversed, writes, emitted, lastCall>>

(* ------------------------------ bounds -------------------------------- *)
MaxRecords == 2        \* small stores: 0..MaxRecords records, every layout
MaxExtra == 3          \* large stores: DBF_PREFETCH..DBF_PREFETCH+MaxExtra records
MaxOvercount == 2      \* fetchMore is not called once the counters exceed size by this
MaxWrites == 1         \* persisted cell writes per run

(* ----------------------------- constants ------------------------------ *)
DBF_PREFETCH == 255
DisplayRole == 0
DecorationRole == 1
EditRole == 2
HeaderBlock == 16

(* ----------------------------- QVariant ------------------------------- *)
Null == [type |-> "Invalid", s |-> <<>>, n |-> 0]
Str(s) == [type |-> "String", s |-> s, n |-> 0]
Num(n) == [type |-> "Int", s |-> <<>>, n |-> n]
isValidVariant(v) == v.type # "Invalid"

Min(a, b) == IF a < b THEN a ELSE b
Max(a, b) == IF a > b THEN a ELSE b

RECURSIVE dropLeading(_)
dropLeading(s) ==
    IF s # <<>> /\ Head(s) = " " THEN dropLeading(Tail(s)) ELSE s

RECURSIVE dropTrailing(_)
dropTrailing(s) ==
    IF s # <<>> /\ s[Len(s)] = " " THEN dropTrailing(SubSeq(s, 1, Len(s) - 1)) ELSE s

\* QString::trimmed
trimmed(s) == dropTrailing(dropLeading(s))

(* --------------------------- QModelIndex ------------------------------ *)
InvalidIndex == [row |-> -1, column |-> -1, model |-> FALSE]
Index(r, c) == [row |-> r, column |-> c, model |-> TRUE]
isValid(index) == index.row >= 0 /\ index.column >= 0 /\ index.model

(* ------------------------------ QDbfTable ----------------------------- *)
FieldNames == <<"NAME", "NUM">>

\* the record the table holds at physical position pos (0-based)
StoreRecord(pos, del) ==
    [deleted |-> del, recordIndex |-> pos, vals |-> <<Str(<<"a", " ">>), Num(pos)>>]

MakeTable(size, delSet, readOnly) ==
    [open |-> TRUE,
     mode |-> IF readOnly THEN "ReadOnly" ELSE "ReadWrite",
     recs |-> [i \in 1..size |-> StoreRecord(i - 1, (i - 1) \in delSet)]]

\* a table whose file could not be opened
ClosedTable == [open |-> FALSE, mode |-> "NotOpen", recs |-> <<>>]

isOpen == table.open
openMode == table.mode
size == Len(table.recs)

\* QDbfTable::seek: position the cursor on a record, or before the first one
seek(index) == isOpen /\ index >= -1 /\ index < size

\* QDbfTable::record at cursor position at
recordAt(at) == table.recs[at + 1]

\* QDbfTable::updateRecordInTable can only succeed on a table open for writing
canPersist == isOpen /\ openMode = "ReadWrite"

updatedTable(record) ==
    [table EXCEPT !.recs[record.recordIndex + 1].vals = record.vals]

(* ------------------------------ QDbfRecord ---------------------------- *)
\* QDbfRecord::value: an invalid variant outside the fields
value(record, column) ==
    IF column >= 0 /\ column < Len(record.vals) THEN record.vals[column + 1] ELSE Null

\* QDbfRecord::setValue: nothing outside the fields
setValue(record, column, v) ==
    IF column >= 0 /\ column < Len(record.vals)
    THEN [record EXCEPT !.vals[column + 1] = v]
    ELSE record

(* --------------------------- QDbfTableModelPrivate -------------------- *)
rowCount == Len(m_records)
columnCount == Len(m_record)

flags(index) ==
    IF ~isValid(index) THEN {"ItemIsEnabled"}
    ELSE IF openMode = "ReadWrite"
         THEN {"ItemIsSelectable", "ItemIsEnabled", "ItemIsEditable"}
         ELSE {"ItemIsSelectable", "ItemIsEnabled"}

\* role & ~(Qt::DisplayRole | Qt::EditRole), for roles 0..3
roleOutsideMask(role) == role - 2 * ((role \div 2) % 2)

data(index, role) ==
    IF ~isValid(index) THEN Null
    ELSE IF index.row >= rowCount \/ index.column >= columnCount THEN Null
    ELSE IF roleOutsideMask(role) # 0 THEN Null
    ELSE LET v == value(m_records[index.row + 1], index.column)
         IN  IF role = EditRole /\ v.type = "String" THEN Str(trimmed(v.s)) ELSE v

canFetchMoreOf(index, records, deleted) ==
    ~isValid(index) /\ isOpen /\ Len(records) + deleted < size

canFetchMore(index) == canFetchMoreOf(index, m_records, m_deletedRecordsCount)

Signal(sig, a, b) == [sig |-> sig, a |-> a, b |-> b]

Call(op, index, role, v, ret, persist, touched, oob) ==
    [op |-> op, row |-> index.row, column |-> index.column, valid |-> isValid(index),
     role |-> role, val |-> v, ret |-> ret, persist |-> persist,
     touched |-> touched, oob |-> oob,
     orientation |-> "none", appended |-> 0, skipped |-> 0]

\* a fetchMore call that ran its loop: rows appended and deleted records skipped
FetchCall(op, index, appended, skipped) ==
    [Call(op, index, 0, Null, "none", "none", FALSE, FALSE)
        EXCEPT !.appended = appended, !.skipped = skipped]

HeaderCall(section, orientation, role, v, ret) ==
    [Call("setHeaderData", [row |-> -1, column |-> section, model |-> FALSE],
          role, v, ret, "none", FALSE, FALSE)
        EXCEPT !.orientation = orientation]

\* the loop body without the update of m_lastRecordIndex
loopBodyKeepsLast(st, pos) ==
    IF st.done THEN st
    ELSE LET record == recordAt(pos)
         IN  IF record.deleted
             THEN [st EXCEPT !.deleted = @ + 1, !.at = pos]
             ELSE [st EXCEPT !.records = Append(@, record),
                             !.at = pos,
                             !.fetched = @ + 1,
                             !.done = (st.fetched + 1 >= st.fetchSize)]

\* the loop body without the count of deleted records
loopBodyUncounted(st, pos) ==
    IF st.done THEN st
    ELSE LET record == recordAt(pos)
         IN  IF record.deleted
             THEN [st EXCEPT !.at = pos]
             ELSE [st EXCEPT !.records = Append(@, record),
                             !.last = pos,
                             !.at = pos,
                             !.fetched = @ + 1,
                             !.done = (st.fetched + 1 >= st.fetchSize)]

\* the loop body putting each record in front of the cached rows
loopBodyPrepends(st, pos) ==
    IF st.done THEN st
    ELSE LET record == recordAt(pos)
         IN  IF record.deleted
             THEN [st EXCEPT !.deleted = @ + 1, !.at = pos]
             ELSE [st EXCEPT !.records = <<record>> \o @,
                             !.last = pos,
                             !.at = pos,
                             !.fetched = @ + 1,
                             !.done = (st.fetched + 1 >= st.fetchSize)]

\* the loop body breaking one row late
loopBodyLateBreak(st, pos) ==
    IF st.done THEN st
    ELSE LET record == recordAt(pos)
         IN  IF record.deleted
             THEN [st EXCEPT !.deleted = @ + 1, !.at = pos]
             ELSE [st EXCEPT !.records = Append(@, record),
                             !.last = pos,
                             !.at = pos,
                             !.fetched = @ + 1,
                             !.done = (st.fetched + 1 > st.fetchSize)]

\* the loop body moving m_lastRecordIndex over deleted records too
loopBodyLastOnDeleted(st, pos) ==
    IF st.done THEN st
    ELSE LET record == recordAt(pos)
         IN  IF record.deleted
             THEN [st EXCEPT !.deleted = @ + 1, !.last = pos, !.at = pos]
             ELSE [st EXCEPT !.records = Append(@, record),
                             !.last = pos,
                             !.at = pos,
                             !.fetched = @ + 1,
                             !.done = (st.fetched + 1 >= st.fetchSize)]

\* one pass through the body of the while loop of fetchMore, after next()
\* has moved the cursor to pos; done is set by the break
loopBody(st, pos) ==
    IF st.done THEN st
    ELSE LET record == recordAt(pos)
         IN  IF record.deleted
             THEN [st EXCEPT !.deleted = @ + 1, !.at = pos]
             ELSE [st EXCEPT !.records = Append(@, record),
                             !.last = pos,
                             !.at = pos,
                             !.fetched = @ + 1,
                             !.done = (st.fetched + 1 >= st.fetchSize)]

\* the while loop over the cursor positions lo..hi in increasing order
\* (the range is halved so that the evaluation depth stays logarithmic)
RECURSIVE fetchLoop(_, _, _)
fetchLoop(lo, hi, st) ==
    IF lo > hi THEN st
    ELSE IF lo = hi THEN loopBody(st, lo)
    ELSE LET mid == (lo + hi) \div 2
             firstHalf == fetchLoop(lo, mid, st)
         IN  IF firstHalf.done THEN firstHalf ELSE fetchLoop(mid + 1, hi, firstHalf)

fetchSizeOf(records, deleted) == Min(size - Len(records) - deleted, DBF_PREFETCH)

\* the body of fetchMore past its two early returns
fetched(records, deleted, last) ==
    fetchLoop(last + 1, size - 1,
              [records |-> records, deleted |-> deleted, last |-> last, at |-> last,
               fetched |-> 0, fetchSize |-> fetchSizeOf(records, deleted), done |-> FALSE])

fetchSignals(records, deleted) ==
    << Signal("rowsAboutToBeInserted", Len(records) + 1,
              Len(records) + fetchSizeOf(records, deleted)),
       Signal("rowsInserted", Len(records) + 1,
              Len(records) + fetchSizeOf(records, deleted)) >>

(* ------------------------------- Init --------------------------------- *)
\* the constructor: open the table, take its schema, fetch the first batch
Constructed(t) ==
    /\ table = t
    /\ m_record = IF t.open THEN FieldNames ELSE <<>>
    /\ m_headers = <<>>
    /\ writes = 0
    /\ IF canFetchMoreOf(InvalidIndex, <<>>, 0) /\ seek(-1)
       THEN LET f == fetched(<<>>, 0, -1)
            IN  /\ lastCall = FetchCall("ctor", InvalidIndex, Len(f.records), f.deleted)
                /\ m_records = f.records
                /\ m_deletedRecordsCount = f.deleted
                /\ m_lastRecordIndex = f.last
                /\ traversed = f.at + 1
                /\ emitted = fetchSignals(<<>>, 0)
       ELSE /\ lastCall = FetchCall("ctor", InvalidIndex, 0, 0)
            /\ m_records = <<>>
            /\ m_deletedRecordsCount = 0
            /\ m_lastRecordIndex = -1
            /\ traversed = 0
            /\ emitted = <<>>

SmallTables ==
    UNION { { MakeTable(n, d, ro) : d \in SUBSET (0..(n - 1)), ro \in BOOLEAN }
            : n \in 0..MaxRecords }

Init == \E t \in {ClosedTable} \cup SmallTables : Constructed(t)

(* ------------------------------ actions ------------------------------- *)
\* fetchMore without the early return on a failed seek
FetchMoreNoSeekCheck(index) ==
    /\ lastCall.ret # "abort"
    /\ rowCount + m_deletedRecordsCount < size + MaxOvercount
    /\ UNCHANGED <<table, m_record, m_headers, writes>>
    /\ IF isValid(index)
       THEN /\ UNCHANGED <<m_records, m_deletedRecordsCount, m_lastRecordIndex, traversed>>
            /\ emitted' = <<>>
            /\ lastCall' = FetchCall("fetchMore", index, 0, 0)
       ELSE LET f == fetched(m_records, m_deletedRecordsCount, m_lastRecordIndex)
            IN  /\ lastCall' = FetchCall("fetchMore", index, Len(f.records) - rowCount,
                                         f.deleted - m_deletedRecordsCount)
                /\ m_records' = f.records
                /\ m_deletedRecordsCount' = f.deleted
                /\ m_lastRecordIndex' = f.last
                /\ traversed' = Max(traversed, f.at + 1)
                /\ emitted' = fetchSignals(m_records, m_deletedRecordsCount)

FetchMore(index) ==
    /\ lastCall.ret # "abort"
    /\ rowCount + m_deletedRecordsCount < size + MaxOvercount
    /\ UNCHANGED <<table, m_record, m_headers, writes>>
    /\ IF isValid(index) \/ ~seek(m_lastRecordIndex)
       THEN /\ UNCHANGED <<m_records, m_deletedRecordsCount, m_lastRecordIndex, traversed>>
            /\ emitted' = <<>>
            /\ lastCall' = FetchCall("fetchMore", index, 0, 0)
       ELSE LET f == fetched(m_records, m_deletedRecordsCount, m_lastRecordIndex)
            IN  /\ lastCall' = FetchCall("fetchMore", index, Len(f.records) - rowCount,
                                         f.deleted - m_deletedRecordsCount)
                /\ m_records' = f.records
                /\ m_deletedRecordsCount' = f.deleted
                /\ m_lastRecordIndex' = f.last
                /\ traversed' = Max(traversed, f.at + 1)
                /\ emitted' = fetchSignals(m_records, m_deletedRecordsCount)

\* setData without the rollback after a rejected persist request
SetDataBodyNoRollback(index, v) ==
    LET tentative == [m_records EXCEPT ![index.row + 1] = setValue(@, index.column, v)]
    IN  \/ /\ canPersist
           /\ writes < MaxWrites
           /\ m_records' = tentative
           /\ table' = updatedTable(tentative[index.row + 1])
           /\ writes' = writes + 1
           /\ emitted' = <<Signal("dataChanged", index.row, index.column)>>
           /\ lastCall' = Call("setData", index, EditRole, v, "true", "accepted", TRUE, FALSE)
        \/ /\ m_records' = tentative
           /\ UNCHANGED <<table, writes>>
           /\ emitted' = <<>>
           /\ lastCall' = Call("setData", index, EditRole, v, "false", "rejected", TRUE, FALSE)

\* setData announcing the whole row instead of the one cell
SetDataBodyWholeRow(index, v) ==
    LET oldValue == value(m_records[index.row + 1], index.column)
        tentative == [m_records EXCEPT ![index.row + 1] = setValue(@, index.column, v)]
        rolledBack == [tentative EXCEPT ![index.row + 1] = setValue(@, index.column, oldValue)]
    IN  \/ /\ canPersist
           /\ writes < MaxWrites
           /\ m_records' = tentative
           /\ table' = updatedTable(tentative[index.row + 1])
           /\ writes' = writes + 1
           /\ emitted' = <<Signal("dataChanged", index.row, 0)>>
           /\ lastCall' = Call("setData", index, EditRole, v, "true", "accepted", TRUE, FALSE)
        \/ /\ m_records' = rolledBack
           /\ UNCHANGED <<table, writes>>
           /\ emitted' = <<>>
           /\ lastCall' = Call("setData", index, EditRole, v, "false", "rejected", TRUE, FALSE)

\* setData sending the record to the store before overwriting the cell
SetDataBodyPersistFirst(index, v) ==
    LET tentative == [m_records EXCEPT ![index.row + 1] = setValue(@, index.column, v)]
    IN  \/ /\ canPersist
           /\ writes < MaxWrites
           /\ m_records' = tentative
           /\ table' = updatedTable(m_records[index.row + 1])
           /\ writes' = writes + 1
           /\ emitted' = <<Signal("dataChanged", index.row, index.column)>>
           /\ lastCall' = Call("setData", index, EditRole, v, "true", "accepted", TRUE, FALSE)
        \/ /\ UNCHANGED <<m_records, table, writes>>
           /\ emitted' = <<>>
           /\ lastCall' = Call("setData", index, EditRole, v, "false", "rejected", TRUE, FALSE)

\* setData past its guards, on a cached row: the store accepts or rejects
SetDataBody(index, v) ==
    LET oldValue == value(m_records[index.row + 1], index.column)
        tentative == [m_records EXCEPT ![index.row + 1] = setValue(@, index.column, v)]
        rolledBack == [tentative EXCEPT ![index.row + 1] = setValue(@, index.column, oldValue)]
    IN  \/ /\ canPersist
           /\ writes < MaxWrites
           /\ m_records' = tentative
           /\ table' = updatedTable(tentative[index.row + 1])
           /\ writes' = writes + 1
           /\ emitted' = <<Signal("dataChanged", index.row, index.column)>>
           /\ lastCall' = Call("setData", index, EditRole, v, "true", "accepted", TRUE, FALSE)
        \/ /\ m_records' = rolledBack
           /\ UNCHANGED <<table, writes>>
           /\ emitted' = <<>>
           /\ lastCall' = Call("setData", index, EditRole, v, "false", "rejected", TRUE, FALSE)

\* m_records.at(row) with row outside the vector: a failed assertion, or a
\* record read from and written to memory outside the cache
SetDataOutside(index, v) ==
    /\ UNCHANGED <<m_records, table, writes>>
    /\ \/ /\ emitted' = <<>>
          /\ lastCall' = Call("setData", index, EditRole, v, "abort", "none", FALSE, TRUE)
       \/ /\ canPersist
          /\ emitted' = <<Signal("dataChanged", index.row, index.column)>>
          /\ lastCall' = Call("setData", index, EditRole, v, "true", "accepted", TRUE, TRUE)
       \/ /\ emitted' = <<>>
          /\ lastCall' = Call("setData", index, EditRole, v, "false", "rejected", TRUE, TRUE)

SetData(index, v, role) ==
    /\ lastCall.ret # "abort"
    /\ UNCHANGED <<m_record, m_headers, m_deletedRecordsCount, m_lastRecordIndex, traversed>>
    /\ IF ~isOpen \/ ~(isValid(index) /\ role = EditRole)
       THEN /\ UNCHANGED <<m_records, table, writes>>
            /\ emitted' = <<>>
            /\ lastCall' = Call("setData", index, role, v, "false", "none", FALSE, FALSE)
       ELSE IF index.row >= rowCount
            THEN SetDataOutside(index, v)
            ELSE SetDataBody(index, v)

\* no entry under a role of a QHash<int, QVariant>
Absent == [type |-> "Absent", s |-> <<>>, n |-> 0]

EmptyHash == [role \in {DisplayRole, DecorationRole, EditRole} |-> Absent]

\* QVector::resize: keep the entries, append default-constructed ones
resized(headers, n) ==
    [i \in 1..n |-> IF i <= Len(headers) THEN headers[i] ELSE EmptyHash]

\* is there an entry under role in the hash of section
headerPresent(section, role) ==
    /\ section >= 0 /\ section < Len(m_headers) /\ role \in DOMAIN EmptyHash
    /\ m_headers[section + 1][role] # Absent

\* QVector::value(i).value(role): an invalid variant when either is absent
headerValue(section, role) ==
    IF headerPresent(section, role) THEN m_headers[section + 1][role] ELSE Null

\* setHeaderData without the test of the orientation
SetHeaderDataAnyOrientation(section, orientation, v, role) ==
    /\ lastCall.ret # "abort"
    /\ UNCHANGED <<table, m_record, m_records, m_deletedRecordsCount,
                   m_lastRecordIndex, traversed, writes>>
    /\ IF section < 0 \/ columnCount <= section
       THEN /\ UNCHANGED m_headers
            /\ emitted' = <<>>
            /\ lastCall' = HeaderCall(section, orientation, role, v, "false")
       ELSE LET grown == IF Len(m_headers) <= section
                         THEN resized(m_headers, Max(section + 1, HeaderBlock))
                         ELSE m_headers
            IN  /\ m_headers' = [grown EXCEPT ![section + 1][role] = v]
                /\ emitted' = <<Signal("headerDataChanged", section, section)>>
                /\ lastCall' = HeaderCall(section, orientation, role, v, "true")

SetHeaderData(section, orientation, v, role) ==
    /\ lastCall.ret # "abort"
    /\ UNCHANGED <<table, m_record, m_records, m_deletedRecordsCount,
                   m_lastRecordIndex, traversed, writes>>
    /\ IF orientation # "Horizontal" \/ section < 0 \/ columnCount <= section
       THEN /\ UNCHANGED m_headers
            /\ emitted' = <<>>
            /\ lastCall' = HeaderCall(section, orientation, role, v, "false")
       ELSE LET grown == IF Len(m_headers) <= section
                         THEN resized(m_headers, Max(section + 1, HeaderBlock))
                         ELSE m_headers
            IN  /\ m_headers' = [grown EXCEPT ![section + 1][role] = v]
                /\ emitted' = <<Signal("headerDataChanged", section, section)>>
                /\ lastCall' = HeaderCall(section, orientation, role, v, "true")

\* QDbfRecord::fieldName: an empty name outside the fields
fieldName(section) ==
    IF section >= 0 /\ section < Len(m_record) THEN <<m_record[section + 1]>> ELSE <<>>

\* headerData without the fallback from DisplayRole to the EditRole entry
headerDataNoEditFallback(section, orientation, role) ==
    LET v == headerValue(section, role)
    IN  IF orientation = "Horizontal" /\ isValidVariant(v) THEN v
        ELSE IF orientation = "Horizontal" /\ role = DisplayRole /\ Len(m_record) > section
             THEN Str(fieldName(section))
        ELSE IF role = DisplayRole THEN Num(section + 1)
        ELSE Null

headerData(section, orientation, role) ==
    LET exact == headerValue(section, role)
        v == IF role = DisplayRole /\ ~isValidVariant(exact)
             THEN headerValue(section, EditRole)
             ELSE exact
    IN  IF orientation = "Horizontal" /\ isValidVariant(v) THEN v
        ELSE IF orientation = "Horizontal" /\ role = DisplayRole /\ Len(m_record) > section
             THEN Str(fieldName(section))
        ELSE IF role = DisplayRole THEN Num(section + 1)
        ELSE Null

Values == { Str(<<" ", "b">>), Num(7) }
Rows == { -1, 0, rowCount - 1, rowCount } \cap (-1..rowCount)
Columns == 0..columnCount
Indexes == {InvalidIndex} \cup { Index(r, c) : r \in Rows \ {-1}, c \in Columns }

Next ==
    \/ \E index \in {InvalidIndex, Index(0, 0)} : FetchMore(index)
    \/ \E index \in Indexes, v \in Values, role \in {DisplayRole, EditRole} :
           SetData(index, v, role)
    \/ \E section \in {0, columnCount}, orientation \in {"Horizontal", "Vertical"} :
           SetHeaderData(section, orientation, Str(<<"h">>), EditRole)

Spec == Init /\ [][Next]_vars

(* ---------------- stores larger than one prefetch batch ---------------- *)
\* every record live except possibly the first, the last, and the two on
\* either side of the end of the first batch
LargeTables ==
    UNION { { MakeTable(n, d, FALSE) :
                d \in SUBSET ({0, DBF_PREFETCH - 1, DBF_PREFETCH, n - 1} \cap (0..(n - 1))) }
            : n \in DBF_PREFETCH..(DBF_PREFETCH + MaxExtra) }

InitBatch == \E t \in {ClosedTable} \cup SmallTables \cup LargeTables : Constructed(t)

NextBatch ==
    \/ FetchMore(InvalidIndex)
    \/ \E v \in {Str(<<" ", "b">>)}, row \in {0, rowCount - 1} \cap Nat :
           SetData(Index(row, 0), v, EditRole)
    \/ \E role \in {DisplayRole, EditRole} :
           SetHeaderData(0, "Horizontal", Str(<<"h">>), role)

SpecBatch == InitBatch /\ [][NextBatch]_vars

(* ------------------ the loop: while canFetchMore, fetchMore ------------ *)
GrowWhileCan == canFetchMore(InvalidIndex) /\ FetchMore(InvalidIndex)

\* the loop, with cell and header writes between its calls
NextLoop ==
    \/ GrowWhileCan
    \/ \E row \in {0, rowCount - 1} \cap Nat :
           SetData(Index(row, 0), Str(<<" ", "b">>), EditRole)
    \/ \E role \in {DisplayRole, EditRole} :
           SetHeaderData(0, "Horizontal", Str(<<"h">>), role)

\* the caller keeps looping: an enabled fetchMore is eventually called
SpecLoop == InitBatch /\ [][NextLoop]_vars /\ WF_vars(GrowWhileCan)

(* -------------------------- header overlay ---------------------------- *)
HeaderTables == {ClosedTable, MakeTable(1, {}, FALSE)}

InitHeader == \E t \in HeaderTables : Constructed(t)

NextHeader ==
    \/ FetchMore(InvalidIndex)
    \/ \E section \in {0, columnCount - 1},
          v \in {Str(<<"h">>), Str(<<"e">>), Null},
          role \in {DisplayRole, DecorationRole, EditRole} :
           SetHeaderData(section, "Horizontal", v, role)
    \/ \E call \in {<<-1, "Horizontal">>, <<columnCount, "Horizontal">>, <<0, "Vertical">>} :
           SetHeaderData(call[1], call[2], Str(<<"h">>), DisplayRole)

SpecHeader == InitHeader /\ [][NextHeader]_vars

(* ------------------------------ claims -------------------------------- *)
canGrow == canFetchMore(InvalidIndex)
isGrow(call) == call.op = "fetchMore" /\ ~call.valid
onCachedCell(call) ==
    /\ call.op = "setData" /\ call.valid /\ call.role = EditRole
    /\ call.row < rowCount /\ call.column < columnCount
CachedCells == { Index(r, c) : r \in 0..(rowCount - 1), c \in 0..(columnCount - 1) }
calledIndex(call) == [row |-> call.row, column |-> call.column, model |-> call.valid]

\* the store's live records, in traversal order
LiveRecords == SelectSeq(table.recs, LAMBDA r : ~r.deleted)
DeletedInStore == Cardinality({ i \in 1..size : table.recs[i].deleted })

\* C1: on an open store, after any sequence of fetchMore, setData and
\* setHeaderData calls, rowCount + m_deletedRecordsCount never exceeds the
\* store's record count, and equals it once every record has been traversed.
C1_CountersWithinSize ==
    isOpen => /\ rowCount + m_deletedRecordsCount <= size
              /\ (traversed = size => rowCount + m_deletedRecordsCount = size)

\* C2: a fetchMore call made while canFetchMore is false changes neither the
\* row cache nor the two cursor fields, and emits no signal.
C2_GrowWhenExhaustedIsNoOp ==
    [][ (isGrow(lastCall') /\ ~canGrow)
        => /\ m_records' = m_records
           /\ m_lastRecordIndex' = m_lastRecordIndex
           /\ m_deletedRecordsCount' = m_deletedRecordsCount
           /\ emitted' = <<>> ]_vars

\* C3: once canFetchMore is false on an open store, the row cache is exactly
\* the store's live records in traversal order, each once; so rowCount is the
\* record count minus the number of deleted records.
C3_CacheIsLiveSubsequence ==
    (isOpen /\ ~canGrow)
        => /\ m_records = LiveRecords
           /\ rowCount = size - DeletedInStore

C3_Witness ==
    /\ isOpen /\ ~canGrow /\ isGrow(lastCall)
    /\ rowCount > DBF_PREFETCH
    /\ DeletedInStore >= 2

\* C4: after the constructor's fetch and after every fetchMore call,
\* rowCount + m_deletedRecordsCount = min(size, records traversed).
C4_CountersEqualTraversed ==
    (lastCall.op \in {"ctor", "fetchMore"})
        => rowCount + m_deletedRecordsCount = Min(size, traversed)

\* C5: canFetchMore is true iff the store is open and rowCount +
\* m_deletedRecordsCount < size; and that is the case exactly while some
\* record of the open store has not been traversed.
C5_CanGrowIffUntraversed ==
    /\ canGrow <=> (isOpen /\ rowCount + m_deletedRecordsCount < size)
    /\ canGrow <=> (isOpen /\ traversed < size)

C5_Witness ==
    /\ isGrow(lastCall) /\ ~canGrow /\ traversed = size
    /\ rowCount > DBF_PREFETCH /\ m_deletedRecordsCount > 0

\* C6: one fetchMore call appends at most DBF_PREFETCH rows and at most
\* size - rowCount - m_deletedRecordsCount (taken before the call) rows.
C6_GrowAppendsAtMostBatch ==
    [][ isGrow(lastCall')
        => /\ rowCount' - rowCount <= DBF_PREFETCH
           /\ rowCount' - rowCount <= size - rowCount - m_deletedRecordsCount ]_vars

\* C7: setData on a cached cell whose persist request the store rejects
\* returns false, leaves the whole row cache as it was (so data returns what
\* it returned before) and emits no signal.
C7_RejectedWriteRollsBack ==
    [][ (onCachedCell(lastCall') /\ lastCall'.persist = "rejected")
        => /\ lastCall'.ret = "false"
           /\ m_records' = m_records
           /\ \A index \in CachedCells, role \in {DisplayRole, EditRole} :
                  data(index, role)' = data(index, role)
           /\ emitted' = <<>> ]_vars

C7_Witness ==
    /\ onCachedCell(lastCall) /\ lastCall.persist = "rejected"
    /\ openMode = "ReadWrite"
    /\ lastCall.val # value(m_records[lastCall.row + 1], lastCall.column)

\* what data returns for a cell holding v
shown(v, role) == IF role = EditRole /\ v.type = "String" THEN Str(trimmed(v.s)) ELSE v

acceptedWriteFrame(call) ==
    /\ call.ret = "true"
    /\ emitted' = <<Signal("dataChanged", call.row, call.column)>>
    /\ rowCount' = rowCount
    /\ \A r \in 0..(rowCount - 1), c \in 0..(columnCount - 1) :
           (r # call.row \/ c # call.column)
               => value(m_records'[r + 1], c) = value(m_records[r + 1], c)
    /\ \A r \in 1..rowCount : m_records'[r].recordIndex = m_records[r].recordIndex
    /\ m_lastRecordIndex' = m_lastRecordIndex
    /\ m_deletedRecordsCount' = m_deletedRecordsCount

\* C8 as stated: after an accepted setData(row, column, v) on a cached cell,
\* data(row, column) returns v (in either mode), one dataChanged(row, column)
\* is emitted, and nothing else changes.
C8_AcceptedWriteReadsBackSame ==
    [][ (onCachedCell(lastCall') /\ lastCall'.persist = "accepted")
        => /\ acceptedWriteFrame(lastCall')
           /\ \A index \in CachedCells, role \in {DisplayRole, EditRole} :
                  index = calledIndex(lastCall') => data(index, role)' = lastCall'.val ]_vars

\* C8 amended: after an accepted setData(row, column, v) on a cached cell,
\* setData returned true, data(row, column) returns v under DisplayRole and,
\* under EditRole, v with leading and trailing blanks removed when v is a
\* string (v otherwise); exactly one dataChanged(row, column) is emitted; every
\* other cell, rowCount, m_lastRecordIndex and m_deletedRecordsCount are
\* unchanged.
C8_AcceptedWriteReadsBackTrimmed ==
    [][ (onCachedCell(lastCall') /\ lastCall'.persist = "accepted")
        => /\ acceptedWriteFrame(lastCall')
           /\ \A index \in CachedCells, role \in {DisplayRole, EditRole} :
                  index = calledIndex(lastCall')
                      => data(index, role)' = shown(lastCall'.val, role) ]_vars

C8_Witness ==
    /\ onCachedCell(lastCall) /\ lastCall.persist = "accepted"
    /\ lastCall.val = Str(<<" ", "b">>)
    /\ data(calledIndex(lastCall), EditRole) = Str(<<"b">>)

\* C9: setData on a store opened read-only returns false without overwriting
\* any cell (not even tentatively), without a persist request, without a
\* signal, and leaves the cache unchanged.
C9_ReadOnlyWriteIsNoOp ==
    [][ (lastCall'.op = "setData" /\ openMode = "ReadOnly")
        => /\ lastCall'.ret = "false"
           /\ ~lastCall'.touched
           /\ lastCall'.persist = "none"
           /\ emitted' = <<>>
           /\ m_records' = m_records ]_vars

\* C10: setData with row >= rowCount, column >= columnCount or a role other
\* than EditRole returns false, changes no cell, sends no persist request,
\* emits no signal, and touches no slot outside 0..rowCount-1.
C10_OutOfRangeWriteIsNoOp ==
    [][ (/\ lastCall'.op = "setData"
         /\ \/ lastCall'.row >= rowCount
            \/ lastCall'.column >= columnCount
            \/ lastCall'.role # EditRole)
        => /\ lastCall'.ret = "false"
           /\ m_records' = m_records
           /\ lastCall'.persist = "none"
           /\ emitted' = <<>>
           /\ ~lastCall'.oob ]_vars

\* C11: over any step, rowCount does not decrease and every row index already
\* assigned keeps the store record (by physical position) it held.
C11_RowsKeepTheirIndex ==
    [][ /\ rowCount' >= rowCount
        /\ \A i \in 1..rowCount : m_records'[i].recordIndex = m_records[i].recordIndex ]_vars

C11_Witness ==
    /\ isGrow(lastCall) /\ lastCall.appended > 0
    /\ rowCount = DBF_PREFETCH + lastCall.appended

HeaderSections == (-1..(columnCount + 1)) \cup {HeaderBlock - 1, HeaderBlock}
HeaderReads ==
    { <<section, orientation, role>> :
        section \in HeaderSections, orientation \in {"Horizontal", "Vertical"},
        role \in {DisplayRole, DecorationRole, EditRole, 3} }

\* the resolution chain of headerData, an overlay entry counting when has(section, role)
chain(section, orientation, role, has(_, _)) ==
    IF orientation = "Horizontal" /\ has(section, role)
         THEN m_headers[section + 1][role]
    ELSE IF orientation = "Horizontal" /\ role = DisplayRole /\ has(section, EditRole)
         THEN m_headers[section + 1][EditRole]
    ELSE IF orientation = "Horizontal" /\ role = DisplayRole /\ section < columnCount
         THEN Str(fieldName(section))
    ELSE IF role = DisplayRole THEN Num(section + 1)
    ELSE Null

headerUsable(section, role) ==
    headerPresent(section, role) /\ isValidVariant(m_headers[section + 1][role])

\* C12 as stated: headerData returns the overlay value of the exact role if an
\* entry is present; else for DisplayRole the EditRole entry if present; else
\* for DisplayRole and section < columnCount the field name; else for
\* DisplayRole section + 1; else no value.  Vertical: section + 1 for
\* DisplayRole, no value otherwise.
C12_HeaderChainByPresence ==
    \A read \in HeaderReads :
        headerData(read[1], read[2], read[3]) = chain(read[1], read[2], read[3], headerPresent)

\* C12 amended: the same chain, where an overlay entry counts only if it is
\* present and holds a valid (non-null) value.
C12_HeaderChainByValidity ==
    \A read \in HeaderReads :
        headerData(read[1], read[2], read[3]) = chain(read[1], read[2], read[3], headerUsable)

C12_Witness ==
    /\ headerPresent(0, DisplayRole) /\ ~headerUsable(0, DisplayRole)
    /\ headerUsable(0, EditRole)
    /\ headerData(0, "Horizontal", DisplayRole) = m_headers[1][EditRole]
    /\ headerData(1, "Horizontal", DisplayRole) = Str(<<"NUM">>)

\* C13: setHeaderData on the vertical axis or with a section outside
\* 0..columnCount-1 returns false, leaves m_headers (entries and size) as it
\* was and emits nothing; otherwise it returns true, stores the value under
\* (section, role) and changes no other entry, emits one headerDataChanged for
\* that section, and leaves the row cache and the fetch cursor alone.
C13_HeaderWrite ==
    [][ lastCall'.op = "setHeaderData"
        => IF \/ lastCall'.orientation # "Horizontal"
              \/ lastCall'.column < 0
              \/ lastCall'.column >= columnCount
           THEN /\ lastCall'.ret = "false"
                /\ m_headers' = m_headers
                /\ emitted' = <<>>
           ELSE /\ lastCall'.ret = "true"
                /\ \A section \in 0..HeaderBlock, role \in DOMAIN EmptyHash :
                       IF section = lastCall'.column /\ role = lastCall'.role
                       THEN /\ headerPresent(section, role)'
                            /\ headerValue(section, role)' = lastCall'.val
                       ELSE /\ headerPresent(section, role)' = headerPresent(section, role)
                            /\ headerValue(section, role)' = headerValue(section, role)
                /\ emitted' = <<Signal("headerDataChanged", lastCall'.column, lastCall'.column)>>
                /\ m_records' = m_records
                /\ m_lastRecordIndex' = m_lastRecordIndex
                /\ m_deletedRecordsCount' = m_deletedRecordsCount ]_vars

C13_Witness ==
    /\ lastCall.op = "setHeaderData" /\ lastCall.ret = "true"
    /\ lastCall.column = 1 /\ lastCall.val = Str(<<"e">>)
    /\ headerUsable(0, EditRole)
    /\ Len(m_headers) = HeaderBlock

\* C14: a fetchMore call whose seek to m_lastRecordIndex fails changes neither
\* the row cache nor the cursor fields and emits no signal.
C14_FailedSeekIsNoOp ==
    [][ (isGrow(lastCall') /\ ~seek(m_lastRecordIndex))
        => /\ m_records' = m_records
           /\ m_lastRecordIndex' = m_lastRecordIndex
           /\ m_deletedRecordsCount' = m_deletedRecordsCount
           /\ emitted' = <<>> ]_vars

C14_Witness ==
    /\ isGrow(lastCall) /\ ~seek(m_lastRecordIndex)
    /\ emitted = <<>> /\ rowCount = 0

\* the last call was a fetchMore (the constructor's included) that passed the seek
fetchRan == lastCall.op \in {"ctor", "fetchMore"} /\ emitted # <<>>
announcedFirst == emitted[1].a
announcedLast == emitted[1].b
announcedCount == announcedLast - announcedFirst + 1
rowsBefore == rowCount - lastCall.appended
deletedBefore == m_deletedRecordsCount - lastCall.skipped
remainingBefore == size - rowsBefore - deletedBefore

\* C15: a fetchMore that passes the seek emits one rowsAboutToBeInserted and
\* then one rowsInserted; the announced range starts at the row index equal to
\* rowCount before the fetch and covers min(size - rowCount -
\* m_deletedRecordsCount, DBF_PREFETCH) rows.
C15_AnnouncedRange ==
    fetchRan
        => /\ Len(emitted) = 2
           /\ emitted[1].sig = "rowsAboutToBeInserted"
           /\ emitted[2].sig = "rowsInserted"
           /\ announcedFirst = rowsBefore
           /\ announcedCount = Min(remainingBefore, DBF_PREFETCH)

\* C16 as stated: the rows a fetchMore appends are at most the rows it
\* announced, and as many only if the batch met no deleted record.
C16_AppendedAtMostAnnounced ==
    fetchRan
        => /\ lastCall.appended <= announcedCount
           /\ (lastCall.appended = announcedCount => lastCall.skipped = 0)

\* C16 amended: the rows a fetchMore appends are at most the rows it announced
\* (none when the announced count is zero or negative); and when the announced
\* count is positive and is the remaining-record count (not capped at
\* DBF_PREFETCH), they are as many only if the batch met no deleted record.
C16_AppendedAtMostAnnouncedUncapped ==
    fetchRan
        => /\ lastCall.appended <= Max(announcedCount, 0)
           /\ (/\ announcedCount > 0
               /\ remainingBefore <= DBF_PREFETCH
               /\ lastCall.appended = announcedCount) => lastCall.skipped = 0

C16_Witness ==
    /\ fetchRan /\ isGrow(lastCall)
    /\ lastCall.skipped > 0 /\ lastCall.appended > 0
    /\ lastCall.appended < announcedCount

\* C20: in every fetchMore that passes the seek the batch size is at least 1
\* and the announced range has first <= last.
C20_RangeWellFormed ==
    fetchRan
        => /\ Min(remainingBefore, DBF_PREFETCH) >= 1
           /\ announcedFirst <= announcedLast

\* C17: every cached row holds what the store holds for the record at that
\* row's physical position.
C17_CacheMatchesStore ==
    \A i \in 1..rowCount :
        m_records[i].vals = table.recs[m_records[i].recordIndex + 1].vals

C17_Witness ==
    /\ writes >= 1 /\ rowCount > DBF_PREFETCH
    /\ onCachedCell(lastCall) /\ lastCall.persist = "rejected"
    /\ \E i \in 1..rowCount :
           m_records[i].vals # StoreRecord(m_records[i].recordIndex, FALSE).vals

\* C18: on an open store every fetchMore called while canFetchMore is true
\* strictly increases rowCount + m_deletedRecordsCount without passing the
\* store's size, so the loop "while canFetchMore: fetchMore" ends with
\* canFetchMore false.
C18_GrowLoopTerminates ==
    /\ [][ (isGrow(lastCall') /\ canGrow)
           => /\ rowCount' + m_deletedRecordsCount' > rowCount + m_deletedRecordsCount
              /\ rowCount' + m_deletedRecordsCount' <= size' ]_vars
    /\ <>[](~canGrow)

C18_Witness ==
    /\ isGrow(lastCall) /\ ~canGrow
    /\ lastCall.appended + lastCall.skipped > 0
    /\ rowCount + m_deletedRecordsCount = size

\* C19: m_lastRecordIndex is -1 while no row is cached and otherwise the
\* physical position of the last cached row; physical positions increase
\* strictly with the row index.
C19_LastRecordIndexIsLastRow ==
    /\ rowCount = 0 => m_lastRecordIndex = -1
    /\ rowCount > 0 => m_lastRecordIndex = m_records[rowCount].recordIndex
    /\ \A i \in 1..(rowCount - 1) :
           m_records[i].recordIndex < m_records[i + 1].recordIndex

C19_Witness ==
    /\ isGrow(lastCall) /\ lastCall.appended > 0 /\ lastCall.skipped > 0
    /\ rowCount > DBF_PREFETCH
    /\ m_lastRecordIndex < size - 1
    /\ m_records[1].recordIndex > 0

====
